---- MODULE Spec2Model ----
(***************************************************************************)
(* gpsd ntpshm.c: the NTP shared-memory segment pool, the mode-1 publish   *)
(* handshake (ntpshm_put), the per-session time link (activate /           *)
(* deactivate) and the PPS report hook.                                    *)
(***************************************************************************)
EXTENDS Integers, Sequences, FiniteSets, TLC

VARIABLES
    euid,           \* effective uid seen by ntpshm_context_init / init_hook
    shmTime,        \* context->shmTime[i]: the bank of segment handles
    shmTimeInuse,   \* context->shmTimeInuse[i]
    leap_notify,    \* context->leap_notify
    shm,            \* contents of the shared-memory segments (struct shmTime)
    session,        \* per-device struct gps_device_t fields used by ntpshm.c
    thread,         \* per-device PPS listener thread
    chrony,         \* chrony endpoints: file present, open descriptors, datagrams
    put,            \* per-writer position inside ntpshm_put
    rd,             \* the external reader (ntpd, mode-1 protocol)
    mainpc,         \* position of the main thread (blocked in deactivate or not)
    call,           \* history: the latest completed call and its result
    mark,           \* history: the latest activate, and whether deactivate followed it
    tally,          \* history: counters of handles handed out / returned
    pubs            \* history: per segment, the publishes completed since its lease

vars == <<euid, shmTime, shmTimeInuse, leap_notify, shm, session, thread,
          chrony, put, rd, mainpc, call, mark, tally, pubs>>

----------------------------------------------------------------------------
(* Bounds of the model *)

\* number of segments in the bank (NTPSHMSEGS, a compile-time parameter)
NTPSHMSEGS == 4
\* number of device sessions
NumDev == 2
\* calls made in a run of the pool specification
MaxCalls == 3
\* publishes made in a run of the handshake specification
MaxPut == 3
\* main-thread calls made in a run of the session specification
MaxOps == 4
\* publishes per segment made in a run of the publishing specification
MaxPub == 1
\* calls completed (main thread and listeners) in a run of the sharing specification
MaxShare == 5

(* Program constants *)

PPS_MIN_FIXES == 3
NULL == 0
LEAP_NOTINSYNC == 3
\* the values context->leap_notify takes in the model (no warning, add second)
LeapValues == {0, 1}
\* the effective uids the daemon is started with (root, an unprivileged user)
Uids == {0, 1000}

Segs == 0 .. (NTPSHMSEGS - 1)
Dev == 1 .. NumDev

\* the address of segment i, as getShmTime returns it (never NULL)
Ptr(i) == i + 1
\* the segment an address points to
SegOf(p) == p - 1
\* an address that is no segment of the bank
Foreign == Ptr(NTPSHMSEGS)
Handles == {Ptr(i) : i \in Segs}

----------------------------------------------------------------------------
(* struct shmTime *)

PayloadFields == <<"clockTimeStampSec", "clockTimeStampUSec", "clockTimeStampNSec",
                   "receiveTimeStampSec", "receiveTimeStampUSec",
                   "receiveTimeStampNSec", "leap", "precision">>

\* a segment filled with zero bytes (a fresh segment, or after memset)
ZeroSeg == [mode |-> 0, count |-> 0,
            clockTimeStampSec |-> 0, clockTimeStampUSec |-> 0,
            receiveTimeStampSec |-> 0, receiveTimeStampUSec |-> 0,
            leap |-> 0, precision |-> 0, nsamples |-> 0, valid |-> 0,
            clockTimeStampNSec |-> 0, receiveTimeStampNSec |-> 0]

\* the payload part of a segment
Payload(s) == [f \in {PayloadFields[k] : k \in 1 .. Len(PayloadFields)} |-> s[f]]

\* no publish was completed since the lease; n counts them, last is the payload
\* of the latest
NoPubs == [n |-> 0, last |-> Payload(ZeroSeg)]

\* the timestamp pairs the decoder and the PPS listener hand over
TimeDrifts == { [real |-> [tv_sec |-> 1700000000, tv_nsec |-> 500000000],
                 clock |-> [tv_sec |-> 1699999999, tv_nsec |-> 999999000]],
                [real |-> [tv_sec |-> 1700000001, tv_nsec |-> 1999],
                 clock |-> [tv_sec |-> 1700000001, tv_nsec |-> 2500]] }
\* one of them, for specifications in which the times published do not matter
FirstTd == CHOOSE td \in TimeDrifts : td.real.tv_nsec = 500000000
NoTd == [real |-> [tv_sec |-> 0, tv_nsec |-> 0], clock |-> [tv_sec |-> 0, tv_nsec |-> 0]]

----------------------------------------------------------------------------
(* ntpshm_context_init *)

\* the privilege test is lost: a plausible slip
AttachTriedAll(uid, i) == TRUE

\* Which indexes ntpshm_context_init tries to attach.
AttachTried(uid, i) == 2 <= i \/ 0 = uid

\* The banks ntpshm_context_init can leave: getShmTime may fail (NULL) for any
\* index it tries; an index it skips keeps the NULL of the zeroed context.
ContextInitBanks(uid) ==
    { b \in [Segs -> Handles \cup {NULL}] :
        \A i \in Segs : /\ b[i] \in {NULL, Ptr(i)}
                        /\ ~AttachTried(uid, i) => b[i] = NULL }

----------------------------------------------------------------------------
(* ntpshm_alloc *)

\* the in-use test of the scan is lost: a plausible slip
AllocCandidatesAnyUse(bank, inuse) == {i \in Segs : bank[i] # NULL}

\* the indexes the scan of ntpshm_alloc accepts
AllocCandidates(bank, inuse) == {i \in Segs : bank[i] # NULL /\ ~inuse[i]}

\* the scan goes downwards: a plausible slip
AllocPickLast(bank, inuse) ==
    CHOOSE i \in AllocCandidates(bank, inuse) :
        \A j \in AllocCandidates(bank, inuse) : j <= i

\* the index the loop stops at (the loop runs i = 0, 1, ...)
AllocPick(bank, inuse) ==
    CHOOSE i \in AllocCandidates(bank, inuse) :
        \A j \in AllocCandidates(bank, inuse) : i <= j

\* the memset is forgotten: a plausible slip
AllocSegNoMemset(old) ==
    [old EXCEPT !.mode = 1, !.leap = LEAP_NOTINSYNC, !.precision = -1, !.nsamples = 3]

\* the contents ntpshm_alloc leaves in the segment it hands out
AllocSeg(old) ==
    [ZeroSeg EXCEPT !.mode = 1, !.leap = LEAP_NOTINSYNC, !.precision = -1, !.nsamples = 3]

\* ntpshm_alloc: the handle returned, and the in-use flags and memory it leaves
ntpshm_alloc(bank, inuse, mem) ==
    IF AllocCandidates(bank, inuse) = {}
    THEN [ret |-> NULL, inuse |-> inuse, mem |-> mem]
    ELSE LET i == AllocPick(bank, inuse)
         IN  [ret |-> bank[i],
              inuse |-> [inuse EXCEPT ![i] = TRUE],
              mem |-> [mem EXCEPT ![i] = AllocSeg(@)]]

----------------------------------------------------------------------------
(* ntpshm_free *)

FreeMatches(bank, s) == {i \in Segs : s = bank[i]}

\* every matching index is cleared instead of the first: a plausible slip
FreeIndexAll(bank, s) == FreeMatches(bank, s)

\* the index the loop of ntpshm_free stops at, as a set (empty: no match)
FreeIndex(bank, s) ==
    {i \in FreeMatches(bank, s) : \A j \in FreeMatches(bank, s) : i <= j}

\* the flags are left alone: a plausible slip
FreeKeepsFlags(bank, inuse, s) ==
    [ret |-> FreeMatches(bank, s) # {}, inuse |-> inuse]

\* ntpshm_free: the result, and the in-use flags it leaves
ntpshm_free(bank, inuse, s) ==
    [ret |-> FreeIndex(bank, s) # {},
     inuse |-> [i \in Segs |-> IF i \in FreeIndex(bank, s) THEN FALSE ELSE inuse[i]]]

----------------------------------------------------------------------------
(* ntpshm_put, one memory write per step *)

\* the main thread, as a writer; the listener of device d is writer d
MainThread == 0
Writers == {MainThread} \cup Dev

\* valid is set before the second count increment: a plausible slip
PutProgValidEarly ==
    <<"clear_valid", "inc_count",
      "clockTimeStampSec", "clockTimeStampUSec", "clockTimeStampNSec",
      "receiveTimeStampSec", "receiveTimeStampUSec", "receiveTimeStampNSec",
      "leap", "precision",
      "set_valid", "inc_count">>

\* the first count increment comes after the first payload write: a plausible slip
PutProgCountLate ==
    <<"clear_valid", "clockTimeStampSec", "inc_count",
      "clockTimeStampUSec", "clockTimeStampNSec",
      "receiveTimeStampSec", "receiveTimeStampUSec", "receiveTimeStampNSec",
      "leap", "precision",
      "inc_count", "set_valid">>

\* the writes of ntpshm_put to the segment, in program order
PutProg ==
    <<"clear_valid", "inc_count",
      "clockTimeStampSec", "clockTimeStampUSec", "clockTimeStampNSec",
      "receiveTimeStampSec", "receiveTimeStampUSec", "receiveTimeStampNSec",
      "leap", "precision",
      "inc_count", "set_valid">>

\* the field a write goes to
PutField(op) ==
    CASE op \in {"clear_valid", "set_valid"} -> "valid"
      [] op = "inc_count" -> "count"
      [] OTHER -> op

\* the value a write stores; old is the segment before it, leap the value of
\* context->leap_notify when the write executes
PutValue(op, old, td, precision, leap) ==
    CASE op = "clear_valid" -> 0
      [] op = "inc_count" -> old.count + 1
      [] op = "clockTimeStampSec" -> td.real.tv_sec
      [] op = "clockTimeStampUSec" -> td.real.tv_nsec \div 1000
      [] op = "clockTimeStampNSec" -> td.real.tv_nsec
      [] op = "receiveTimeStampSec" -> td.clock.tv_sec
      [] op = "receiveTimeStampUSec" -> td.clock.tv_nsec \div 1000
      [] op = "receiveTimeStampNSec" -> td.clock.tv_nsec
      [] op = "leap" -> leap
      [] op = "precision" -> precision
      [] op = "set_valid" -> 1

\* the segment after one write of ntpshm_put
PutWrite(op, old, td, precision, leap) ==
    [old EXCEPT ![PutField(op)] = PutValue(op, old, td, precision, leap)]

\* the default is kept for the PPS segment too: a plausible slip
PutPrecisionDefault(sess, shmseg) == -1

\* the precision ntpshm_put chooses on entry
PutPrecision(sess, shmseg) == IF shmseg = sess.shm_pps THEN -20 ELSE -1

\* a writer that is not inside ntpshm_put
PutIdle == [pc |-> 0, dev |-> 0, seg |-> NULL, td |-> NoTd, precision |-> 0,
            wlog |-> <<>>]

\* entry of ntpshm_put(session d, shmseg, td) by writer w; a NULL shmseg returns 0
\* at once and the writer stays idle
PutEnter(w, d, shmseg, td) ==
    /\ put[w].pc = 0
    /\ put' = [put EXCEPT ![w] =
                 IF shmseg = NULL THEN PutIdle
                 ELSE [pc |-> 1, dev |-> d, seg |-> shmseg, td |-> td,
                       precision |-> PutPrecision(session[d], shmseg),
                       wlog |-> <<>>]]

\* the number of the second count increment in PutProg
PutLastInc ==
    CHOOSE k \in 1 .. Len(PutProg) :
        /\ PutProg[k] = "inc_count"
        /\ \A j \in (k + 1) .. Len(PutProg) : PutProg[j] # "inc_count"

\* the number of the first count increment in PutProg
PutFirstInc ==
    CHOOSE k \in 1 .. Len(PutProg) :
        /\ PutProg[k] = "inc_count"
        /\ \A j \in 1 .. (k - 1) : PutProg[j] # "inc_count"

\* the next write of writer w inside ntpshm_put; after the last one it returns 1
PutStep(w) ==
    /\ put[w].pc \in 1 .. Len(PutProg)
    /\ LET p == put[w]
           op == PutProg[p.pc]
           i == SegOf(p.seg)
           new == PutWrite(op, shm[i], p.td, p.precision, leap_notify)
       IN  /\ shm' = [shm EXCEPT ![i] = new]
           /\ put' = [put EXCEPT ![w] =
                         IF p.pc = Len(PutProg) THEN PutIdle
                         ELSE [p EXCEPT !.pc = p.pc + 1,
                                        !.wlog = Append(p.wlog, <<PutField(op), new[PutField(op)]>>)]]
           /\ pubs' = IF p.pc = PutLastInc
                      THEN [pubs EXCEPT ![i] = [n |-> @.n + 1, last |-> Payload(new)]]
                      ELSE pubs
           /\ call' = IF p.pc = Len(PutProg)
                      THEN [call EXCEPT !.n = call.n + 1, !.op = "put", !.dev = p.dev,
                                        !.arg = p.seg, !.ret = 1,
                                        !.wlog = Append(p.wlog, <<PutField(op), new[PutField(op)]>>)]
                      ELSE call

----------------------------------------------------------------------------
(* Sessions, the chrony socket and the PPS listener *)

SourceTypes == {"source_usb", "source_rs232", "source_pty", "source_bluetooth"}

\* the fields of struct gps_device_t that ntpshm.c reads or writes, as
\* ntpshm_session_init leaves them on a new session
NewSession ==
    [shm_clock |-> NULL, shm_pps |-> NULL, sourcetype |-> "source_unknown",
     chronyfd |-> -1, fixcnt |-> 0, ship_to_ntpd |-> TRUE,
     thread_report_hook |-> "NULL", thread_wrap_hook |-> "NULL"]

\* ntpshm_session_init
ntpshm_session_init(sess) == [sess EXCEPT !.shm_clock = NULL, !.shm_pps = NULL]

\* the descriptor netlib_localsocket returns for the socket of device d
ChronyFd(d) == 2 + d

\* init_hook: the chronyfd it leaves; present: access(chrony_path) succeeds,
\* connect_ok: netlib_localsocket succeeds
init_hook(d, present, connect_ok) ==
    IF ~present THEN -1
    ELSE IF connect_ok THEN ChronyFd(d) ELSE -1

\* the listener thread of a session: how many threads run, and the stop request
NoThread == [live |-> 0, stop |-> FALSE]

\* pps_thread_activate: pthread_create may fail
pps_thread_activate(thr, spawn_ok) ==
    IF spawn_ok THEN [live |-> thr.live + 1, stop |-> FALSE] ELSE thr

\* pps_thread_deactivate: the stop request (the wait for the exit follows)
pps_thread_deactivate(thr) == [thr EXCEPT !.stop = TRUE]

\* the PPS segment is asked for whatever the source type: a plausible slip
PpsCapableAny(st) == TRUE

\* the source types ntpshm_link_activate starts the PPS path for
PpsCapable(st) == st = "source_usb" \/ st = "source_rs232"

\* the session is given up when the clock segment is missing, and the PPS
\* segment is never asked for: a plausible slip
LinkActivateClockOnly(d, sess, bank, inuse, mem, thr, present, connect_ok, spawn_ok) ==
    LET a1 == ntpshm_alloc(bank, inuse, mem)
    IN  IF sess.sourcetype = "source_pty"
        THEN [sess |-> sess, inuse |-> inuse, mem |-> mem, thr |-> thr, opened |-> FALSE,
              log |-> <<>>]
        ELSE [sess |-> [sess EXCEPT !.shm_clock = a1.ret],
              inuse |-> a1.inuse, mem |-> a1.mem, thr |-> thr, opened |-> FALSE,
              log |-> <<>>]

\* the messages ntpshm_link_activate reports when an allocation fails
LogClockFailed == "NTPD ntpshm_alloc() failed"
LogPpsFailed == "NTPD ntpshm_alloc(1) failed"

\* the else is lost: the PPS branch also runs when the clock segment is
\* missing: a plausible slip
LinkActivatePpsRegardless(d, sess, bank, inuse, mem, thr, present, connect_ok, spawn_ok) ==
    LET a1 == ntpshm_alloc(bank, inuse, mem)
        a2 == ntpshm_alloc(bank, a1.inuse, a1.mem)
        fd == init_hook(d, present, connect_ok)
        l1 == IF a1.ret = NULL THEN <<LogClockFailed>> ELSE <<>>
    IN  IF sess.sourcetype = "source_pty"
        THEN [sess |-> sess, inuse |-> inuse, mem |-> mem, thr |-> thr, opened |-> FALSE,
              log |-> <<>>]
        ELSE IF ~(sess.sourcetype = "source_usb" \/ sess.sourcetype = "source_rs232")
        THEN [sess |-> [sess EXCEPT !.shm_clock = a1.ret],
              inuse |-> a1.inuse, mem |-> a1.mem, thr |-> thr, opened |-> FALSE,
              log |-> l1]
        ELSE IF a2.ret = NULL
        THEN [sess |-> [sess EXCEPT !.shm_clock = a1.ret, !.shm_pps = NULL],
              inuse |-> a2.inuse, mem |-> a2.mem, thr |-> thr, opened |-> FALSE,
              log |-> l1 \o <<LogPpsFailed>>]
        ELSE [sess |-> [sess EXCEPT !.shm_clock = a1.ret, !.shm_pps = a2.ret,
                                    !.chronyfd = fd,
                                    !.thread_report_hook = "report_hook",
                                    !.thread_wrap_hook = "wrap_hook"],
              inuse |-> a2.inuse, mem |-> a2.mem,
              thr |-> pps_thread_activate(thr, spawn_ok),
              opened |-> fd >= 0, log |-> l1]

\* ntpshm_link_activate: the session, pool, memory and listener it leaves;
\* opened tells whether init_hook opened a socket, log what it reported about
\* failed allocations
ntpshm_link_activate(d, sess, bank, inuse, mem, thr, present, connect_ok, spawn_ok) ==
    LET a1 == ntpshm_alloc(bank, inuse, mem)
        a2 == ntpshm_alloc(bank, a1.inuse, a1.mem)
        fd == init_hook(d, present, connect_ok)
    IN  IF sess.sourcetype = "source_pty"
        THEN [sess |-> sess, inuse |-> inuse, mem |-> mem, thr |-> thr, opened |-> FALSE,
              log |-> <<>>]
        ELSE IF a1.ret = NULL
        THEN [sess |-> [sess EXCEPT !.shm_clock = NULL],
              inuse |-> a1.inuse, mem |-> a1.mem, thr |-> thr, opened |-> FALSE,
              log |-> <<LogClockFailed>>]
        ELSE IF ~PpsCapable(sess.sourcetype)
        THEN [sess |-> [sess EXCEPT !.shm_clock = a1.ret],
              inuse |-> a1.inuse, mem |-> a1.mem, thr |-> thr, opened |-> FALSE,
              log |-> <<>>]
        ELSE IF a2.ret = NULL
        THEN [sess |-> [sess EXCEPT !.shm_clock = a1.ret, !.shm_pps = NULL],
              inuse |-> a2.inuse, mem |-> a2.mem, thr |-> thr, opened |-> FALSE,
              log |-> <<LogPpsFailed>>]
        ELSE [sess |-> [sess EXCEPT !.shm_clock = a1.ret, !.shm_pps = a2.ret,
                                    !.chronyfd = fd,
                                    !.thread_report_hook = "report_hook",
                                    !.thread_wrap_hook = "wrap_hook"],
              inuse |-> a2.inuse, mem |-> a2.mem,
              thr |-> pps_thread_activate(thr, spawn_ok),
              opened |-> fd >= 0, log |-> <<>>]

\* the clock segment is kept in use by deactivate: a plausible slip
DeactivateClockLeak(sess, bank, inuse) ==
    [sess |-> [sess EXCEPT !.shm_clock = NULL], inuse |-> inuse]

\* ntpshm_link_deactivate, first part: the clock segment goes back to the pool
DeactivateClock(sess, bank, inuse) ==
    IF sess.shm_clock # NULL
    THEN [sess |-> [sess EXCEPT !.shm_clock = NULL],
          inuse |-> ntpshm_free(bank, inuse, sess.shm_clock).inuse]
    ELSE [sess |-> sess, inuse |-> inuse]

\* the listener is never asked to stop: a plausible slip
DeactivateStopsNever(sess) == FALSE

\* the listener is asked to stop whatever the session holds: a plausible slip
DeactivateStopsAlways(sess) == TRUE

\* ntpshm_link_deactivate asks the listener to stop only if a PPS segment is held
DeactivateStops(sess) == sess.shm_pps # NULL

\* ntpshm_link_deactivate, last part, after pps_thread_deactivate: the PPS
\* segment goes back to the pool
DeactivatePps(sess, bank, inuse) ==
    IF sess.shm_pps # NULL
    THEN [sess |-> [sess EXCEPT !.shm_pps = NULL],
          inuse |-> ntpshm_free(bank, inuse, sess.shm_pps).inuse]
    ELSE [sess |-> sess, inuse |-> inuse]

\* wrap_hook: how many of the session's sockets are open after it
wrap_hook(sess, nopen) ==
    IF sess.chronyfd # -1 /\ nopen > 0 THEN nopen - 1 ELSE nopen

\* the label is changed whether or not there is a socket: a plausible slip
ReportLabelSockAlways(sess) ==
    IF ~sess.ship_to_ntpd THEN "skipped ship_to_ntp=0"
    ELSE IF sess.fixcnt <= PPS_MIN_FIXES THEN "no fix"
    ELSE "accepted chrony sock"

\* the label is not changed when the socket is used: a plausible slip
ReportLabelNoSock(sess) ==
    IF ~sess.ship_to_ntpd THEN "skipped ship_to_ntp=0"
    ELSE IF sess.fixcnt <= PPS_MIN_FIXES THEN "no fix"
    ELSE "accepted"

\* the gate of the fix count is off by one: a plausible slip
ReportLabelGateLate(sess) ==
    IF ~sess.ship_to_ntpd THEN "skipped ship_to_ntp=0"
    ELSE IF sess.fixcnt < PPS_MIN_FIXES THEN "no fix"
    ELSE IF 0 <= sess.chronyfd THEN "accepted chrony sock"
    ELSE "accepted"

\* report_hook: the string it returns
ReportLabel(sess) ==
    IF ~sess.ship_to_ntpd THEN "skipped ship_to_ntp=0"
    ELSE IF sess.fixcnt <= PPS_MIN_FIXES THEN "no fix"
    ELSE IF 0 <= sess.chronyfd THEN "accepted chrony sock"
    ELSE "accepted"

\* report_hook passed its two gates
ReportAccepted(sess) == ReportLabel(sess) \in {"accepted", "accepted chrony sock"}

----------------------------------------------------------------------------
(* History records *)

\* wlog: the memory writes of a publish, or the messages an activate reported
NoCall == [n |-> 0, op |-> "none", dev |-> 0, arg |-> 0, ret |-> 0, label |-> "",
           pre |-> [i \in Segs |-> FALSE], fresh |-> FALSE, wlog |-> <<>>]

Idle == [op |-> "idle", dev |-> 0, pre |-> [i \in Segs |-> FALSE], fresh |-> FALSE]

\* the record of a completed call
Called(op, d, arg, ret, label, pre, fresh) ==
    [n |-> call.n + 1, op |-> op, dev |-> d, arg |-> arg, ret |-> ret,
     label |-> label, pre |-> pre, fresh |-> fresh, wlog |-> <<>>]

\* no activate is being followed; opened: init_hook of that activate opened a socket
NoMark == [op |-> "none", dev |-> 0, pre |-> [i \in Segs |-> FALSE], fresh |-> FALSE,
           opened |-> FALSE]

\* deactivate of device d completes: it follows the activate noted in mark iff
\* that was the call before it, on the same device
MarkDeactivate(d) ==
    IF mark.op = "activate" /\ mark.dev = d
    THEN [mark EXCEPT !.op = "activate-deactivate"]
    ELSE NoMark

\* both segment handles of the session are none, as after ntpshm_session_init
Fresh(sess) == sess.shm_clock = NULL /\ sess.shm_pps = NULL

----------------------------------------------------------------------------
(* Initial states: after ntpshm_context_init and ntpshm_session_init *)

RECURSIVE PutFrom(_, _, _, _, _)
\* ntpshm_put run to its end without interruption, from write k on
PutFrom(k, old, td, precision, leap) ==
    IF k > Len(PutProg) THEN old
    ELSE PutFrom(k + 1, PutWrite(PutProg[k], old, td, precision, leap),
                 td, precision, leap)

\* what an earlier run of the daemon may have left in a segment that already
\* existed when it was attached: a segment is attached, not cleared
StaleSeg ==
    PutFrom(1, AllocSeg(ZeroSeg),
            CHOOSE td \in TimeDrifts : td.real.tv_nsec = 1999, -20, 1)

\* the parts of the state every specification starts from
InitCommon ==
    /\ euid \in Uids
    /\ shmTimeInuse = [i \in Segs |-> FALSE]
    /\ leap_notify = 0
    /\ thread = [d \in Dev |-> NoThread]
    /\ chrony = [present |-> [d \in Dev |-> FALSE], nopen |-> [d \in Dev |-> 0],
                 sent |-> [d \in Dev |-> 0]]
    /\ put = [w \in Writers |-> PutIdle]
    /\ rd = [pc |-> "idle", seg |-> 0, valid |-> 0, c1 |-> 0, c2 |-> 0,
             k |-> 0, vals |-> NoPubs.last, done |-> NoPubs]
    /\ mainpc = Idle
    /\ call = NoCall
    /\ mark = NoMark
    /\ tally = [out |-> 0, back |-> 0, stray |-> 0]
    /\ pubs = [i \in Segs |-> NoPubs]

\* every session as the device table holds it before it is opened
InitSessions == session = [d \in Dev |-> NewSession]

\* every attachment ntpshm_context_init tries succeeds, on fresh segments
InitAttachedAll ==
    /\ shmTime = [i \in Segs |-> IF AttachTried(euid, i) THEN Ptr(i) ELSE NULL]
    /\ shm = [i \in Segs |-> ZeroSeg]

\* any attachment may fail, and an attached segment may hold stale contents
InitAttachedAny ==
    /\ shmTime \in ContextInitBanks(euid)
    /\ shm \in [Segs -> {ZeroSeg, StaleSeg}]
    /\ \A i \in Segs : shmTime[i] = NULL => shm[i] = ZeroSeg

----------------------------------------------------------------------------
(* The pool on its own: calls of ntpshm_alloc and ntpshm_free *)

\* the publish history of a segment starts again when it is handed out
PubsAfterAlloc(p, ret) == IF ret = NULL THEN p ELSE [p EXCEPT ![SegOf(ret)] = NoPubs]

PoolAlloc ==
    /\ call.n < MaxCalls
    /\ LET a == ntpshm_alloc(shmTime, shmTimeInuse, shm)
       IN  /\ shmTimeInuse' = a.inuse
           /\ shm' = a.mem
           /\ call' = Called("alloc", 0, 0, a.ret, "", shmTimeInuse, FALSE)
           /\ tally' = [tally EXCEPT !.out = @ + (IF a.ret # NULL THEN 1 ELSE 0)]
           /\ pubs' = PubsAfterAlloc(pubs, a.ret)
    /\ UNCHANGED <<euid, shmTime, leap_notify, session, thread, chrony, put, rd, mainpc,
                   mark>>

PoolFree(s) ==
    /\ call.n < MaxCalls
    /\ LET f == ntpshm_free(shmTime, shmTimeInuse, s)
       IN  /\ shmTimeInuse' = f.inuse
           /\ call' = Called("free", 0, s, IF f.ret THEN 1 ELSE 0, "",
                             shmTimeInuse, FALSE)
           /\ tally' = [tally EXCEPT
                           !.back = @ + (IF f.ret /\ s # NULL THEN 1 ELSE 0),
                           !.stray = @ + (IF s \in Handles /\ shmTimeInuse[SegOf(s)]
                                          THEN 0 ELSE 1)]
    /\ UNCHANGED <<euid, shmTime, leap_notify, shm, session, thread, chrony, put, rd,
                   mainpc, mark, pubs>>

InitPool == InitCommon /\ InitSessions /\ InitAttachedAny

NextPool == PoolAlloc \/ \E s \in Handles \cup {NULL, Foreign} : PoolFree(s)

SpecPool == InitPool /\ [][NextPool]_vars

----------------------------------------------------------------------------
(* The main thread: session init, activate, deactivate, fix-derived publishes *)

SessionInit(d) ==
    /\ mainpc.op = "idle"
    /\ session' = [session EXCEPT ![d] = ntpshm_session_init(@)]
    /\ call' = Called("session_init", d, 0, 0, "", shmTimeInuse, Fresh(session[d]))
    /\ mark' = NoMark
    /\ UNCHANGED <<euid, shmTime, shmTimeInuse, leap_notify, shm, thread, chrony, put,
                   rd, mainpc, tally, pubs>>

\* the device is opened with some source type and ntpshm_link_activate runs
Activate(d) ==
    /\ mainpc.op = "idle"
    /\ \E st \in SourceTypes,
          connect_ok \in (IF chrony.present[d] THEN BOOLEAN ELSE {FALSE}),
          spawn_ok \in BOOLEAN :
         LET r == ntpshm_link_activate(d, [session[d] EXCEPT !.sourcetype = st],
                                       shmTime, shmTimeInuse, shm, thread[d],
                                       chrony.present[d], connect_ok, spawn_ok)
         IN  /\ session' = [session EXCEPT ![d] = r.sess]
             /\ shmTimeInuse' = r.inuse
             /\ shm' = r.mem
             /\ thread' = [thread EXCEPT ![d] = r.thr]
             /\ chrony' = [chrony EXCEPT !.nopen[d] = @ + (IF r.opened THEN 1 ELSE 0)]
             /\ pubs' = [i \in Segs |->
                           IF r.inuse[i] /\ ~shmTimeInuse[i] THEN NoPubs ELSE pubs[i]]
             /\ call' = [Called("activate", d, 0, 0, "", shmTimeInuse,
                                Fresh(session[d])) EXCEPT !.wlog = r.log]
             /\ mark' = [op |-> "activate", dev |-> d, pre |-> shmTimeInuse,
                         fresh |-> Fresh(session[d]), opened |-> r.opened]
    /\ UNCHANGED <<euid, shmTime, leap_notify, put, rd, mainpc, tally>>

\* ntpshm_link_deactivate up to the wait inside pps_thread_deactivate; with no
\* PPS segment, or no listener to wait for, the whole call
DeactivateBegin(d) ==
    /\ mainpc.op = "idle"
    /\ LET c == DeactivateClock(session[d], shmTime, shmTimeInuse)
           p == DeactivatePps(c.sess, shmTime, c.inuse)
       IN  IF DeactivateStops(session[d]) /\ thread[d].live > 0
           THEN /\ session' = [session EXCEPT ![d] = c.sess]
                /\ shmTimeInuse' = c.inuse
                /\ thread' = [thread EXCEPT ![d] = pps_thread_deactivate(@)]
                /\ mainpc' = [op |-> "deactivate", dev |-> d, pre |-> shmTimeInuse,
                              fresh |-> Fresh(session[d])]
                /\ mark' = IF mark.op = "activate" /\ mark.dev = d THEN mark ELSE NoMark
                /\ UNCHANGED call
           ELSE /\ session' = [session EXCEPT ![d] = p.sess]
                /\ shmTimeInuse' = p.inuse
                /\ thread' = [thread EXCEPT ![d] =
                                IF DeactivateStops(session[d])
                                THEN pps_thread_deactivate(@) ELSE @]
                /\ call' = Called("deactivate", d, 0, 0, "", shmTimeInuse,
                                  Fresh(session[d]))
                /\ mark' = MarkDeactivate(d)
                /\ UNCHANGED mainpc
    /\ UNCHANGED <<euid, shmTime, leap_notify, shm, chrony, put, rd, tally, pubs>>

\* the listener has exited: pps_thread_deactivate returns and the PPS segment
\* goes back to the pool
DeactivateEnd(d) ==
    /\ mainpc.op = "deactivate" /\ mainpc.dev = d
    /\ thread[d].live = 0
    /\ LET p == DeactivatePps(session[d], shmTime, shmTimeInuse)
       IN  /\ session' = [session EXCEPT ![d] = p.sess]
           /\ shmTimeInuse' = p.inuse
    /\ call' = Called("deactivate", d, 0, 0, "", mainpc.pre, mainpc.fresh)
    /\ mark' = MarkDeactivate(d)
    /\ mainpc' = Idle
    /\ UNCHANGED <<euid, shmTime, leap_notify, shm, thread, chrony, put, rd, tally, pubs>>

\* the main thread publishes a fix time into the clock segment of session d
MainPut(d) ==
    /\ mainpc.op = "idle"
    /\ \E td \in TimeDrifts : PutEnter(MainThread, d, session[d].shm_clock, td)
    /\ UNCHANGED <<euid, shmTime, shmTimeInuse, leap_notify, shm, session, thread,
                   chrony, rd, mainpc, call, mark, tally, pubs>>

\* a write of ntpshm_put by writer w
PutWrites(w) ==
    /\ PutStep(w)
    /\ UNCHANGED <<euid, shmTime, shmTimeInuse, leap_notify, session, thread, chrony,
                   rd, mainpc, mark, tally>>

\* the decoder changes the leap-second hint
LeapUpdate ==
    /\ \E v \in LeapValues : leap_notify' = v
    /\ UNCHANGED <<euid, shmTime, shmTimeInuse, shm, session, thread, chrony, put, rd,
                   mainpc, call, mark, tally, pubs>>

----------------------------------------------------------------------------
(* The PPS listener thread *)

\* the listener sees the stop request: it runs the wrap hook and exits
ListenerExit(d) ==
    /\ thread[d].live > 0 /\ thread[d].stop
    /\ put[d].pc = 0
    /\ thread' = [thread EXCEPT ![d].live = @ - 1]
    /\ chrony' = [chrony EXCEPT !.nopen[d] =
                     IF session[d].thread_wrap_hook = "wrap_hook"
                     THEN wrap_hook(session[d], @) ELSE @]
    /\ UNCHANGED <<euid, shmTime, shmTimeInuse, leap_notify, shm, session, put, rd,
                   mainpc, call, mark, tally, pubs>>

\* a pulse edge: the listener of device d calls the report hook of the session.
\* call notes the string returned; the writes of ntpshm_put follow step by step.
Pulse(d) ==
    /\ thread[d].live > 0
    /\ put[d].pc = 0
    /\ session[d].thread_report_hook = "report_hook"
    /\ LET sess == session[d]
           accepted == ReportAccepted(sess)
           sends == accepted /\ 0 <= sess.chronyfd
       IN  /\ chrony' = [chrony EXCEPT !.sent[d] =
                            IF sends /\ chrony.nopen[d] > 0 THEN @ + 1 ELSE @]
           /\ IF accepted
              THEN \E td \in TimeDrifts : PutEnter(d, d, sess.shm_pps, td)
              ELSE UNCHANGED put
           /\ call' = Called("report_hook", d, 0, 0, ReportLabel(sess),
                             shmTimeInuse, FALSE)
    /\ UNCHANGED <<euid, shmTime, shmTimeInuse, leap_notify, shm, session, thread, rd,
                   mainpc, mark, tally, pubs>>

\* the fix counts the decoder sets in the model: none, the threshold, above it
FixCounts == {0, PPS_MIN_FIXES, PPS_MIN_FIXES + 1}

\* the decoder updates the count of consecutive fixes of the session
FixUpdate(d) ==
    /\ \E n \in FixCounts : session' = [session EXCEPT ![d].fixcnt = n]
    /\ UNCHANGED <<euid, shmTime, shmTimeInuse, leap_notify, shm, thread, chrony, put,
                   rd, mainpc, call, mark, tally, pubs>>

----------------------------------------------------------------------------
(* The external reader of one segment: the mode-1 protocol of ntpd *)

RdIdle == [pc |-> "idle", seg |-> 0, valid |-> 0, c1 |-> 0, c2 |-> 0,
           k |-> 0, vals |-> NoPubs.last, done |-> NoPubs]

\* reads valid; only if it is 1 the reader goes on
RdValid(i) ==
    /\ rd.pc = "idle"
    /\ shmTime[i] # NULL
    /\ rd' = IF shm[i].valid = 1
             THEN [RdIdle EXCEPT !.pc = "count1", !.seg = i, !.valid = 1]
             ELSE RdIdle
    /\ UNCHANGED <<euid, shmTime, shmTimeInuse, leap_notify, shm, session, thread,
                   chrony, put, mainpc, call, mark, tally, pubs>>

\* reads count
RdCount1 ==
    /\ rd.pc = "count1"
    /\ rd' = [rd EXCEPT !.pc = "values", !.c1 = shm[rd.seg].count, !.k = 1]
    /\ UNCHANGED <<euid, shmTime, shmTimeInuse, leap_notify, shm, session, thread,
                   chrony, put, mainpc, call, mark, tally, pubs>>

\* reads the values, one field at a time
RdValue ==
    /\ rd.pc = "values"
    /\ LET f == PayloadFields[rd.k]
       IN  rd' = [rd EXCEPT !.vals[f] = shm[rd.seg][f],
                            !.k = rd.k + 1,
                            !.pc = IF rd.k = Len(PayloadFields) THEN "count2"
                                   ELSE "values"]
    /\ UNCHANGED <<euid, shmTime, shmTimeInuse, leap_notify, shm, session, thread,
                   chrony, put, mainpc, call, mark, tally, pubs>>

\* reads count again; the values are used iff count is unchanged. done notes
\* the publishes into the segment that were complete at this read.
RdCount2 ==
    /\ rd.pc = "count2"
    /\ rd' = [rd EXCEPT !.pc = "clear", !.c2 = shm[rd.seg].count,
                        !.done = pubs[rd.seg]]
    /\ UNCHANGED <<euid, shmTime, shmTimeInuse, leap_notify, shm, session, thread,
                   chrony, put, mainpc, call, mark, tally, pubs>>

\* clears valid
RdClear ==
    /\ rd.pc = "clear"
    /\ shm' = [shm EXCEPT ![rd.seg].valid = 0]
    /\ rd' = RdIdle
    /\ UNCHANGED <<euid, shmTime, shmTimeInuse, leap_notify, session, thread,
                   chrony, put, mainpc, call, mark, tally, pubs>>

----------------------------------------------------------------------------
(* The handshake: one session publishing fix times, one external reader *)

InitDaemon == InitCommon /\ InitSessions /\ InitAttachedAll

\* fewer than MaxPut publishes were made into the segment since its lease
PutsLeft(shmseg) == IF shmseg = NULL THEN TRUE ELSE pubs[SegOf(shmseg)].n < MaxPut

\* the reader of the handshake specification follows the clock segment
ReaderOfClock ==
    \/ \E i \in Segs : shmTime[i] = session[1].shm_clock /\ RdValid(i)
    \/ RdCount1 \/ RdValue \/ RdCount2 \/ RdClear

\* the first device, one without PPS, is activated once; fix times are
\* published into its clock segment while the reader runs
NextPut ==
    \/ call.n = 0 /\ Activate(1) /\ ~PpsCapable(session'[1].sourcetype)
    \/ PutsLeft(session[1].shm_clock) /\ MainPut(1)
    \/ PutWrites(MainThread)
    \/ ReaderOfClock

SpecPut == InitDaemon /\ [][NextPut]_vars

----------------------------------------------------------------------------
(* The session time link: init, activate and deactivate over several devices *)

\* the chrony endpoint file of device d appears or disappears
EndpointChange(d) ==
    /\ chrony' = [chrony EXCEPT !.present[d] = ~@]
    /\ UNCHANGED <<euid, shmTime, shmTimeInuse, leap_notify, shm, session, thread, put,
                   rd, mainpc, call, mark, tally, pubs>>

Next ==
    \/ \E d \in Dev : call.n < MaxOps /\ SessionInit(d)
    \/ \E d \in Dev : call.n < MaxOps /\ Activate(d)
    \/ \E d \in Dev : call.n < MaxOps /\ DeactivateBegin(d)
    \/ \E d \in Dev : DeactivateEnd(d)
    \/ \E d \in Dev : ListenerExit(d)

Spec == InitDaemon /\ [][Next]_vars

----------------------------------------------------------------------------
(* The PPS path: pulses reported by the listener of an activated device *)

\* the devices the PPS specification activates
PpsDev == {1}

\* as InitDaemon, with ship_to_ntpd as configured for the devices activated
InitPps ==
    /\ InitCommon
    /\ InitAttachedAll
    /\ \E ship \in [PpsDev -> BOOLEAN] :
         session = [d \in Dev |-> IF d \in PpsDev
                                  THEN [NewSession EXCEPT !.ship_to_ntpd = ship[d]]
                                  ELSE NewSession]

\* the listener may still be publishing when more calls are made
NextPps ==
    \/ \E d \in PpsDev : call.n < MaxOps /\ Activate(d)
    \/ \E d \in PpsDev : call.n < MaxOps /\ SessionInit(d)
    \/ \E d \in PpsDev : call.n < MaxOps /\ DeactivateBegin(d)
    \/ \E d \in PpsDev : DeactivateEnd(d)
    \/ \E d \in PpsDev : ListenerExit(d)
    \/ \E d \in PpsDev : call.n < MaxOps /\ PutsLeft(session[d].shm_pps) /\ Pulse(d)
    \/ \E d \in PpsDev : PutWrites(d)
    \/ \E d \in PpsDev : FixUpdate(d)
    \/ \E d \in PpsDev : EndpointChange(d)

SpecPps == InitPps /\ [][NextPps]_vars

----------------------------------------------------------------------------
(* Stopping the listener: activate and deactivate in turn, pulses in between *)

\* the receiver has had its fixes: pulses pass the gates of the report hook
InitStop ==
    /\ InitCommon
    /\ InitAttachedAll
    /\ session = [d \in Dev |-> [NewSession EXCEPT !.fixcnt = PPS_MIN_FIXES + 1]]

\* a session is activated only when it holds nothing, as after session init or
\* deactivate; pulses may arrive at any time, also after the stop request
NextStop ==
    \/ \E d \in PpsDev : call.n < MaxOps /\ Fresh(session[d]) /\ Activate(d)
    \/ \E d \in PpsDev : call.n < MaxOps /\ DeactivateBegin(d)
    \/ \E d \in PpsDev : DeactivateEnd(d)
    \/ \E d \in PpsDev : ListenerExit(d)
    \/ \E d \in PpsDev : call.n < MaxOps /\ PutsLeft(session[d].shm_pps) /\ Pulse(d)
    \/ \E d \in PpsDev : PutWrites(d)

\* the listener goes on running: it finishes the publish it is in and honours
\* the stop request; the main thread goes on once the listener has exited
FairStop ==
    \A d \in PpsDev : /\ WF_vars(PutWrites(d))
                       /\ WF_vars(ListenerExit(d))
                       /\ WF_vars(DeactivateEnd(d))

SpecStop == InitStop /\ [][NextStop]_vars /\ FairStop

----------------------------------------------------------------------------
(* Publishing: fix times into the clock segment, pulse times into the PPS    *)
(* segment, while the leap-second hint changes                               *)

\* the main thread is not inside ntpshm_put
MainIdle == put[MainThread].pc = 0

\* fewer than MaxPub publishes were begun into the segment since its lease
PubsLeft(shmseg) ==
    IF shmseg = NULL THEN TRUE
    ELSE pubs[SegOf(shmseg)].n
           + Cardinality({w \in Writers : put[w].seg = shmseg /\ put[w].pc <= PutLastInc})
         < MaxPub

\* the first device is activated once; then the main thread and the listener
\* publish, each into its segment
NextPublish ==
    \/ call.n = 0 /\ Activate(1)
    \/ PubsLeft(session[1].shm_clock) /\ MainPut(1)
    \/ PubsLeft(session[1].shm_pps) /\ Pulse(1)
    \/ PutWrites(MainThread)
    \/ PutWrites(1)
    \/ LeapUpdate

SpecPublish == InitStop /\ [][NextPublish]_vars

----------------------------------------------------------------------------
(* Sharing the pool: several devices activated and deactivated in turn while *)
(* the main thread and the listeners publish                                 *)

\* the devices of the sharing specification: with a PPS line, and without
ShareSourceTypes == {"source_usb", "source_bluetooth"}

\* the main thread makes one call at a time; a session is activated only when
\* it holds nothing; fixes and pulses come from the devices in PpsDev, the other
\* devices take and return segments
NextShare ==
    \/ \E d \in Dev : call.n < MaxShare /\ MainIdle /\ Fresh(session[d]) /\ Activate(d)
                         /\ session'[d].sourcetype \in ShareSourceTypes
    \/ \E d \in Dev : call.n < MaxShare /\ MainIdle /\ ~Fresh(session[d])
                         /\ DeactivateBegin(d)
    \/ \E d \in Dev : DeactivateEnd(d)
    \/ \E d \in Dev : ListenerExit(d)
    \/ \E d \in PpsDev : call.n < MaxShare /\ session[d].shm_clock # NULL /\ MainPut(d)
                            /\ put'[MainThread].td = FirstTd
    \/ \E d \in PpsDev : call.n < MaxShare /\ session[d].shm_pps # NULL /\ Pulse(d)
                            /\ put'[d].td = FirstTd
    \/ \E w \in {MainThread} \cup PpsDev : PutWrites(w)

SpecShare == InitStop /\ [][NextShare]_vars

----------------------------------------------------------------------------
(* Claims *)

\* a step that is one call of op
IsCall(op) == call'.n = call.n + 1 /\ call'.op = op

\* the slots in use
InUse == {i \in Segs : shmTimeInuse[i]}

----------------------------------------------------------------------------
(* Claims about the session time link *)

\* the segments a session holds
Held(sess) == {SegOf(h) : h \in {sess.shm_clock, sess.shm_pps} \ {NULL}}

\* C6: activate on a freshly initialised session directly followed by
\* deactivate on the same session leaves every in_use flag as it was before the
\* activate, whatever the pool state and the source type.
C6_ActivateDeactivateRestoresPool ==
    (mark.op = "activate-deactivate" /\ mark.fresh) => shmTimeInuse = mark.pre

\* C6 witness: the activate obtained two segments, with another device holding
\* segments meanwhile, and the deactivate has returned
C6_Witness ==
    /\ mark.op = "activate-deactivate" /\ mark.fresh
    /\ call.op = "deactivate" /\ call.dev = mark.dev
    /\ Cardinality({i \in Segs : call.pre[i]}) >= 3
    /\ Cardinality(InUse) = Cardinality({i \in Segs : call.pre[i]}) - 2

\* C8: deactivate on a session whose two handles are none changes no in_use
\* flag, no session handle, no slot content, and requests no listener to stop.
C8_DeactivateOfEmptyIsNoOp ==
    [][\A d \in Dev :
        (IsCall("deactivate") /\ call'.dev = d /\ mainpc.op = "idle"
            /\ Fresh(session[d]))
        => /\ shmTimeInuse' = shmTimeInuse
           /\ \A e \in Dev : /\ session'[e].shm_clock = session[e].shm_clock
                              /\ session'[e].shm_pps = session[e].shm_pps
           /\ shm' = shm
           /\ thread' = thread]_vars

\* C8 witness: a second deactivate of a device that had held two segments has
\* returned, while the pool still has segments in use
C8_Witness ==
    /\ call.op = "deactivate" /\ call.fresh
    /\ thread[call.dev].stop /\ thread[call.dev].live = 0
    /\ InUse # {}

\* C9 as stated: after every completed activate or deactivate, a session with a
\* PPS segment has a live listener thread with both hooks installed.
C9_Original ==
    mainpc.op = "idle" =>
        \A d \in Dev :
            session[d].shm_pps # NULL =>
                /\ thread[d].live > 0
                /\ session[d].thread_report_hook = "report_hook"
                /\ session[d].thread_wrap_hook = "wrap_hook"

\* C10 as stated: a device activated earlier holds segments of lower index than
\* every segment held by a device activated later. Every other device that
\* holds segments when an activate runs was activated earlier.
C10_Original ==
    [][\A d \in Dev :
        (IsCall("activate") /\ call'.dev = d)
        => \A e \in Dev \ {d} :
             \A s \in Held(session[e]) :
               \A t \in Held(session'[d]) \ Held(session[d]) : s < t]_vars

\* the slots in use are the lowest attached ones: no attached slot below a slot
\* in use is free (so it is until a segment is released)
InUseIsPrefix ==
    \A i, j \in Segs : (i < j /\ shmTime[i] # NULL /\ shmTimeInuse[j]) => shmTimeInuse[i]

\* C10: an activate takes the lowest-indexed free attached segments;
\* as long as no attached segment below a segment in use is free (nothing was
\* released), the device being activated gets segments of higher index than
\* every segment held by the devices activated before it.
C10_LowestFreeFirst ==
    [][\A d \in Dev :
        (IsCall("activate") /\ call'.dev = d)
        => \A t \in Held(session'[d]) \ Held(session[d]) :
             /\ \A i \in Segs : (i < t /\ shmTime[i] # NULL) => shmTimeInuse'[i]
             /\ InUseIsPrefix =>
                   \A e \in Dev \ {d} : \A s \in Held(session[e]) : s < t]_vars

\* C10 witness: two devices hold segments, the one activated later the higher
C10_Witness ==
    /\ call.op = "activate" /\ call.n = 2
    /\ \E d \in Dev : /\ d # call.dev
                       /\ Cardinality(Held(session[d])) = 2
                       /\ Held(session[call.dev]) # {}
                       /\ \A s \in Held(session[d]) :
                            \A t \in Held(session[call.dev]) : s < t

\* a step that is one call of activate for device d
IsActivate(d) == IsCall("activate") /\ call'.dev = d

\* the step left alone the listener, the socket, the hooks and the memory of d
NoPpsPathStarted(d) ==
    /\ thread' = thread
    /\ chrony' = chrony
    /\ session'[d].chronyfd = session[d].chronyfd
    /\ session'[d].thread_report_hook = session[d].thread_report_hook
    /\ session'[d].thread_wrap_hook = session[d].thread_wrap_hook
    /\ shm' = shm

\* C11: activate of a non-pty device whose session holds no segment, while no
\* attached segment is free, returns with both handles none, changes no in_use
\* flag, starts no listener, opens no socket, and reports exactly one message,
\* that of the clock segment (so no PPS allocation was tried).
C11_ExhaustedActivateTakesNothing ==
    [][\A d \in Dev :
        (IsActivate(d) /\ session'[d].sourcetype # "source_pty"
            /\ Fresh(session[d]) /\ AllocCandidates(shmTime, shmTimeInuse) = {})
        => /\ Fresh(session'[d])
           /\ shmTimeInuse' = shmTimeInuse
           /\ NoPpsPathStarted(d)
           /\ call'.wlog = <<LogClockFailed>>]_vars

\* C11 witness: a PPS-capable device was activated while the other device held
\* every attached segment, and got neither segment
C11_Witness ==
    /\ call.op = "activate" /\ call.wlog = <<LogClockFailed>>
    /\ PpsCapable(session[call.dev].sourcetype)
    /\ Fresh(session[call.dev])
    /\ \E e \in Dev \ {call.dev} : Cardinality(Held(session[e])) = 2
    /\ \A i \in Segs : shmTime[i] # NULL => shmTimeInuse[i]

PpsPathTouched(d) ==
    \/ session'[d].shm_pps # NULL /\ session'[d].shm_pps # session[d].shm_pps
    \/ call'.wlog = <<LogPpsFailed>>
    \/ thread' # thread
    \/ chrony' # chrony
    \/ session'[d].chronyfd # session[d].chronyfd
    \/ session'[d].thread_report_hook # session[d].thread_report_hook
    \/ session'[d].thread_wrap_hook # session[d].thread_wrap_hook

\* the source types with a PPS line
UsbOrRs232 == {"source_usb", "source_rs232"}

\* C16: activate of a pty source changes nothing; for any other source the
\* clock handle is what one ntpshm_alloc returns; a PPS segment is asked for,
\* the socket opened, the hooks installed and the listener started only if the
\* clock segment was obtained and the source is usb or rs232; so, for a session
\* that held nothing before, a PPS segment after activate implies a clock
\* segment and a usb or rs232 source.
C16_SegmentsBySourceType ==
    [][\A d \in Dev : IsActivate(d) =>
         LET st == session'[d].sourcetype
         IN  /\ st = "source_pty" =>
                   /\ session'[d].shm_clock = session[d].shm_clock
                   /\ session'[d].shm_pps = session[d].shm_pps
                   /\ shmTimeInuse' = shmTimeInuse
                   /\ NoPpsPathStarted(d)
             /\ st # "source_pty" =>
                   session'[d].shm_clock = ntpshm_alloc(shmTime, shmTimeInuse, shm).ret
             /\ PpsPathTouched(d) => (session'[d].shm_clock # NULL /\ st \in UsbOrRs232)
             /\ (Fresh(session[d]) /\ session'[d].shm_pps # NULL) =>
                   (session'[d].shm_clock # NULL /\ st \in UsbOrRs232)]_vars

\* C16 witness: an rs232 device was activated from the empty state and holds
\* two segments with a listener, while the other device, of another source
\* type, holds a clock segment only
C16_Witness ==
    /\ call.op = "activate" /\ call.fresh
    /\ session[call.dev].sourcetype = "source_rs232"
    /\ Cardinality(Held(session[call.dev])) = 2
    /\ thread[call.dev].live = 1
    /\ \E e \in Dev \ {call.dev} :
         /\ session[e].sourcetype = "source_bluetooth"
         /\ session[e].shm_clock # NULL /\ session[e].shm_pps = NULL

----------------------------------------------------------------------------
(* Claims about the report hook *)

\* a step that is one call of the report hook of device d below the threshold
GatedPulse(d) ==
    IsCall("report_hook") /\ call'.dev = d /\ session[d].fixcnt <= PPS_MIN_FIXES

\* the step wrote no field of any segment, began no publish, sent no datagram
NothingShipped == shm' = shm /\ put' = put /\ chrony'.sent = chrony.sent

\* C7 as stated: invoked with a fix count of 3 or less, the report hook returns
\* "no fix", writes no field of any segment and transmits no datagram.
C7_Original ==
    [][\A d \in Dev : GatedPulse(d) => (call'.label = "no fix" /\ NothingShipped)]_vars

\* C7: invoked with a fix count of 3 or less, the report hook writes no field of
\* any segment and transmits no datagram, whether or not a sink is open or a PPS
\* segment is leased; it returns "no fix" if the session ships to ntpd and
\* "skipped ship_to_ntp=0" if it does not.
C7_GatedPulseShipsNothing ==
    [][\A d \in Dev : GatedPulse(d) =>
         /\ call'.label = (IF session[d].ship_to_ntpd THEN "no fix"
                            ELSE "skipped ship_to_ntp=0")
         /\ NothingShipped]_vars

\* C7 witness: the hook returned "no fix" at a fix count of exactly 3, with the
\* sink open and a PPS segment leased
C7_Witness ==
    /\ call.op = "report_hook" /\ call.label = "no fix"
    /\ session[call.dev].fixcnt = PPS_MIN_FIXES
    /\ session[call.dev].shm_pps # NULL
    /\ 0 <= session[call.dev].chronyfd /\ chrony.nopen[call.dev] > 0

\* a step that is one call of the report hook of device d
IsPulse(d) == IsCall("report_hook") /\ call'.dev = d

\* the step began exactly one publish by the listener of d, into segment s
BeganPublish(d, s) ==
    /\ put'[d].pc = 1 /\ put'[d].seg = s
    /\ \A w \in Writers \ {d} : put'[w] = put[w]

\* C13: with ship_to_ntpd false the hook returns "skipped ship_to_ntp=0" and
\* touches neither a segment nor the socket; otherwise, with a fix count above
\* 3, it returns "accepted chrony sock" and sends one datagram if the socket is
\* open, returns "accepted" and sends none if the session has no socket, sends
\* a datagram only if the socket is open, begins one publish into the PPS
\* segment iff the session has one, and never writes the clock segment.
C13_ReportHookRouting ==
    [][\A d \in Dev : IsPulse(d) =>
         LET sess == session[d]
             sent == chrony'.sent[d] - chrony.sent[d]
         IN  /\ ~sess.ship_to_ntpd =>
                   call'.label = "skipped ship_to_ntp=0" /\ NothingShipped
             /\ (sess.ship_to_ntpd /\ sess.fixcnt > PPS_MIN_FIXES) =>
                   /\ (0 <= sess.chronyfd /\ chrony.nopen[d] > 0) =>
                         (call'.label = "accepted chrony sock" /\ sent = 1)
                   /\ sess.chronyfd < 0 => (call'.label = "accepted" /\ sent = 0)
                   /\ sent # 0 => (0 <= sess.chronyfd /\ chrony.nopen[d] > 0)
                   /\ IF sess.shm_pps # NULL
                      THEN BeganPublish(d, sess.shm_pps)
                      ELSE put' = put
                   /\ put'[d].seg = NULL \/ put'[d].seg # sess.shm_clock
             /\ shm' = shm
             /\ \A e \in Dev \ {d} : chrony'.sent[e] = chrony.sent[e]]_vars

\* C13 witness: the hook returned "accepted chrony sock", one datagram went out
\* and the publish into the PPS segment has begun
C13_Witness ==
    /\ call.op = "report_hook" /\ call.label = "accepted chrony sock"
    /\ chrony.sent[call.dev] = 1
    /\ put[call.dev].pc = 1
    /\ put[call.dev].seg = session[call.dev].shm_pps
    /\ session[call.dev].shm_clock # NULL

\* deactivate has returned for a session that was activated from the empty
\* state by the call before it, and that activate had opened the socket
DeactivatedAfterOpen(d) ==
    /\ mainpc.op = "idle"
    /\ call.op = "deactivate" /\ call.dev = d
    /\ mark.op = "activate-deactivate" /\ mark.dev = d /\ mark.fresh /\ mark.opened

\* C14 as stated: after deactivate has returned for a session whose activate
\* had opened the socket, the descriptor is closed and the session holds no
\* descriptor any more (chronyfd is -1), so that a later report hook would not
\* send.
C14_Original ==
    \A d \in Dev : DeactivatedAfterOpen(d) =>
        /\ chrony.nopen[d] = 0
        /\ session[d].chronyfd = -1

\* deactivate of device d has returned, the listener gone, both handles none
DeactivateReturned(d) ==
    /\ mainpc.op = "idle"
    /\ call.op = "deactivate" /\ call.dev = d
    /\ thread[d].live = 0
    /\ Fresh(session[d])

\* C15: with a listener that goes on running, every deactivate that waits for
\* the listener returns, and every deactivate that has returned leaves no
\* listener and both handles none, also when the stop request arrives while
\* the listener is inside the report hook.
C15_DeactivateReturns ==
    /\ \A d \in Dev : (mainpc.op = "deactivate" /\ mainpc.dev = d) ~> DeactivateReturned(d)
    /\ []((mainpc.op = "idle" /\ call.op = "deactivate") => DeactivateReturned(call.dev))

\* C15 witness: deactivate has asked the listener to stop and waits, while the
\* listener is in the middle of a publish of the report hook
C15_Witness ==
    /\ mainpc.op = "deactivate"
    /\ thread[mainpc.dev].stop /\ thread[mainpc.dev].live > 0
    /\ put[mainpc.dev].pc > PutLastInc - 2
    /\ session[mainpc.dev].shm_clock = NULL /\ session[mainpc.dev].shm_pps # NULL

\* C18: the descriptor of a session changes, and a socket is opened, only in a
\* call of activate; a pulse that passes the gates while the session has no
\* descriptor returns "accepted", sends no datagram and goes to the PPS
\* segment only, also when the socket file has appeared since the activate.
C18_NoRetryOfSocket ==
    [][\A d \in Dev :
         /\ (session'[d].chronyfd # session[d].chronyfd
                \/ chrony'.nopen[d] > chrony.nopen[d]) => IsActivate(d)
         /\ (IsPulse(d) /\ session[d].chronyfd = -1 /\ ReportAccepted(session[d])) =>
               /\ call'.label = "accepted"
               /\ chrony'.sent = chrony.sent /\ chrony'.nopen = chrony.nopen
               /\ session' = session
               /\ IF session[d].shm_pps # NULL
                  THEN BeganPublish(d, session[d].shm_pps)
                  ELSE put' = put]_vars

\* C18 witness: the socket file appeared after the activate; the pulse was
\* accepted without a datagram and its publish into the PPS segment has begun
C18_Witness ==
    /\ call.op = "report_hook" /\ call.label = "accepted"
    /\ chrony.present[call.dev]
    /\ session[call.dev].chronyfd = -1
    /\ chrony.sent[call.dev] = 0 /\ chrony.nopen[call.dev] = 0
    /\ put[call.dev].pc = 1 /\ put[call.dev].seg = session[call.dev].shm_pps

\* C22 as stated: after any sequence of session init, activate and deactivate
\* calls, a second activate without a deactivate and a session init on an
\* activated session included, every segment in use is named by the clock or
\* PPS handle of some session.
C22_Original ==
    mainpc.op = "idle" => InUse \subseteq UNION {Held(session[d]) : d \in Dev}

----------------------------------------------------------------------------
(* Claims about writers and leases *)

\* the session a writer publishes for holds the segment it writes, the segment
\* is in use, and no other session holds it
WritesOwnLease(w) ==
    LET i == SegOf(put[w].seg)
        d == put[w].dev
    IN  /\ shmTimeInuse[i]
        /\ i \in Held(session[d])
        /\ \A e \in Dev \ {d} : i \notin Held(session[e])
        /\ w \in Dev => (w = d /\ thread[w].live > 0 /\ put[w].seg = session[d].shm_pps)
        /\ w = MainThread => put[w].seg = session[d].shm_clock

\* C19: whatever the interleaving, a writer inside a publish writes a segment
\* that is in use and held by its own session and by no other; two writers are
\* never inside the same segment; and while a listener runs the PPS segment of
\* its session is still leased, so the segment goes back to the pool, and to
\* another session, only after the listener has exited.
C19_SingleWriterPerSegment ==
    /\ \A w \in Writers : put[w].pc > 0 => WritesOwnLease(w)
    /\ \A v, w \in Writers : (v # w /\ put[v].pc > 0 /\ put[w].pc > 0)
                                => put[v].seg # put[w].seg
    /\ \A d \in Dev : thread[d].live > 0 =>
          /\ session[d].shm_pps # NULL
          /\ shmTimeInuse[SegOf(session[d].shm_pps)]

\* C19 witness: the listener of the first device is inside a publish into the
\* PPS segment the second device held until its listener was stopped and exited
C19_Witness ==
    /\ euid # 0
    /\ Fresh(session[2]) /\ thread[2].stop /\ thread[2].live = 0
    /\ session[1].shm_pps = Ptr(3) /\ thread[1].live = 1
    /\ put[1].pc > 0 /\ put[1].seg = Ptr(3)

\* C20: after any sequence of session init, activate and deactivate calls on
\* the sessions, the clock and PPS handles of one session name different
\* segments, no segment is held by two sessions, and every segment a session
\* handle names has a non-NULL bank handle and its in-use flag set.
C20_ExclusiveLease ==
    /\ \A d \in Dev : session[d].shm_clock # NULL => session[d].shm_clock # session[d].shm_pps
    /\ \A d, e \in Dev : d # e => Held(session[d]) \cap Held(session[e]) = {}
    /\ \A d \in Dev : \A i \in Held(session[d]) : shmTime[i] # NULL /\ shmTimeInuse[i]

\* C20 witness: both sessions hold a clock and a PPS segment, four segments in all
C20_Witness ==
    /\ euid = 0
    /\ call.op = "activate" /\ call.dev = 1
    /\ Held(session[1]) = {2, 3}
    /\ Held(session[2]) = {0, 1}
    /\ \A d \in Dev : session[d].shm_clock # NULL /\ session[d].shm_pps # NULL

----------------------------------------------------------------------------
(* Claims about what a publish stores *)

\* the number of the write of leap in PutProg
LeapAt == CHOOSE k \in 1 .. Len(PutProg) : PutProg[k] = "leap"

\* C17: a completed publish leaves precision -20 in the PPS segment of its
\* session and -1 in the clock segment, microseconds equal to nanoseconds
\* divided by 1000, mode 1, nsamples 3, and the leap it wrote; the write of
\* leap stores the value context->leap_notify has when it executes.
C17_PublishStoresPrecisionAndLeap ==
    [][/\ \A w \in Writers :
            (put[w].pc = LeapAt /\ put'[w].pc = LeapAt + 1)
            => shm'[SegOf(put[w].seg)].leap = leap_notify
       /\ IsCall("put") =>
            LET seg == shm'[SegOf(call'.arg)]
                sess == session[call'.dev]
            IN  /\ call'.arg = sess.shm_pps => seg.precision = -20
                /\ call'.arg = sess.shm_clock => seg.precision = -1
                /\ call'.arg \in {sess.shm_pps, sess.shm_clock}
                /\ seg.clockTimeStampUSec = seg.clockTimeStampNSec \div 1000
                /\ seg.receiveTimeStampUSec = seg.receiveTimeStampNSec \div 1000
                /\ seg.mode = 1 /\ seg.nsamples = 3
                /\ \E k \in 1 .. Len(call'.wlog) : call'.wlog[k] = <<"leap", seg.leap>>]_vars

\* C17 witness: the listener completed a publish into the PPS segment that
\* stored the leap hint set meanwhile, after the main thread had published
\* into the clock segment under the earlier hint
C17_Witness ==
    /\ call.op = "put" /\ call.arg = session[1].shm_pps
    /\ shm[SegOf(session[1].shm_pps)].precision = -20
    /\ shm[SegOf(session[1].shm_pps)].leap = 1
    /\ session[1].shm_clock # NULL /\ pubs[SegOf(session[1].shm_clock)].n = 1
    /\ shm[SegOf(session[1].shm_clock)].precision = -1
    /\ shm[SegOf(session[1].shm_clock)].leap = 0

----------------------------------------------------------------------------
(* Claims about the count of a leased segment *)

\* the publishes into segment i that have made their first count increment and
\* not yet their second
BetweenIncrements(i) ==
    {w \in Writers : /\ put[w].seg = Ptr(i)
                     /\ put[w].pc > PutFirstInc /\ put[w].pc <= PutLastInc}

\* C21: while a segment is leased, count is twice the number of publishes into
\* it that have made their second increment since the lease, plus one exactly
\* while a publish is between its two increments; so count is even when no
\* publish is in progress, valid is 1 only with count even, and count does not
\* decrease while the lease lasts.
C21_CountParity ==
    /\ [](\A i \in InUse :
            /\ shm[i].count = 2 * pubs[i].n + Cardinality(BetweenIncrements(i))
            /\ Cardinality(BetweenIncrements(i)) <= 1
            /\ (\A w \in Writers : put[w].seg = Ptr(i) => put[w].pc = 0)
                  => shm[i].count % 2 = 0
            /\ shm[i].valid = 1 => shm[i].count % 2 = 0)
    /\ [][\A i \in Segs :
            /\ (shmTimeInuse[i] /\ shmTimeInuse'[i]) => shm'[i].count >= shm[i].count
            /\ (shmTimeInuse'[i] /\ shm'[i].valid = 1 /\ shm[i].valid # 1)
                  => shm'[i].count % 2 = 0]_vars

\* C21 witness: the second publish into a leased PPS segment is between its
\* increments, while deactivate waits for the listener before the release
C21_Witness ==
    /\ mainpc.op = "deactivate" /\ thread[1].stop
    /\ session[1].shm_pps # NULL
    /\ put[1].seg = session[1].shm_pps /\ put[1].pc > PutFirstInc /\ put[1].pc <= PutLastInc
    /\ pubs[SegOf(session[1].shm_pps)].n = 1
    /\ shm[SegOf(session[1].shm_pps)].count = 3
    /\ shm[SegOf(session[1].shm_pps)].valid = 0

----------------------------------------------------------------------------
(* Claims about the handshake *)

\* the reader has read count twice and found it unchanged: it uses the values
RdAccepts == rd.pc = "clear" /\ rd.c1 = rd.c2

\* the values the reader holds are those of the publish that was the most
\* recent completed one when it read count the second time
RdHoldsLatestPublish == rd.done.n > 0 /\ rd.vals = rd.done.last

\* C1 as stated: whenever the two count reads are equal, the accepted payload
\* is exactly that of one publish, the most recent completed one.
C1_Original == RdAccepts => RdHoldsLatestPublish

\* C1 amended: whenever the two count reads are equal and the count read is
\* even, the accepted payload is exactly that of one publish, the most recent
\* completed one (publish number count/2 since the lease).
C1_EvenCountReadIsUntorn ==
    (RdAccepts /\ rd.c1 % 2 = 0) =>
        (rd.c1 = 2 * rd.done.n /\ RdHoldsLatestPublish)

\* C1 witness: the reader accepts the first publish while the writer has
\* already cleared valid for the second
C1_Witness ==
    /\ RdAccepts /\ rd.c1 = 2
    /\ put[MainThread].pc = 2
    /\ pubs[rd.seg].n = 1

\* C2: every publish writes valid=0, then count+1, then each payload field,
\* then count+1 again, then valid=1; no payload write lies outside the two
\* count increments.
C2_PublishWriteOrder ==
    call.op = "put" =>
        LET w == call.wlog
            n == Len(PayloadFields)
        IN  /\ Len(w) = n + 4
            /\ w[1] = <<"valid", 0>>
            /\ w[2][1] = "count"
            /\ \A k \in 1 .. n : \E j \in 3 .. (n + 2) : w[j][1] = PayloadFields[k]
            /\ w[n + 3] = <<"count", w[2][2] + 1>>
            /\ w[n + 4] = <<"valid", 1>>
            /\ shm[SegOf(call.arg)].count >= w[n + 3][2]

\* C2 witness: the second publish into a segment has returned
C2_Witness ==
    /\ call.op = "put"
    /\ call.wlog[2] = <<"count", 3>>
    /\ shm[SegOf(call.arg)].clockTimeStampUSec = 500000

----------------------------------------------------------------------------
(* Claims about the pool *)

\* C3: ntpshm_alloc returns the attached, not-in-use slot of lowest index, marks
\* it in use and leaves it zeroed but for mode=1, leap=NOTINSYNC, precision=-1,
\* nsamples=3; with no such slot it returns none and changes no flag, no content.
C3_AllocLowestAndInitialised ==
    [][IsCall("alloc") =>
        LET free == {i \in Segs : shmTime[i] # NULL /\ ~shmTimeInuse[i]}
        IN  IF free = {}
            THEN /\ call'.ret = NULL
                 /\ shmTimeInuse' = shmTimeInuse
                 /\ shm' = shm
            ELSE \E i \in free :
                 /\ \A j \in free : i <= j
                 /\ call'.ret = shmTime[i]
                 /\ shmTimeInuse' = [shmTimeInuse EXCEPT ![i] = TRUE]
                 /\ shm'[i].mode = 1 /\ shm'[i].leap = LEAP_NOTINSYNC
                 /\ shm'[i].precision = -1 /\ shm'[i].nsamples = 3
                 /\ shm'[i].count = 0 /\ shm'[i].valid = 0
                 /\ shm'[i].clockTimeStampSec = 0 /\ shm'[i].clockTimeStampUSec = 0
                 /\ shm'[i].clockTimeStampNSec = 0 /\ shm'[i].receiveTimeStampSec = 0
                 /\ shm'[i].receiveTimeStampUSec = 0
                 /\ shm'[i].receiveTimeStampNSec = 0
                 /\ \A j \in Segs \ {i} : shm'[j] = shm[j]]_vars

\* C3 witness: alloc handed out a slot above an attached slot that was in use
C3_Witness ==
    /\ call.op = "alloc" /\ call.ret # NULL
    /\ \E j \in Segs : j < SegOf(call.ret) /\ shmTime[j] # NULL /\ call.pre[j]
    /\ shm[SegOf(call.ret)] = AllocSeg(ZeroSeg)

\* C4: ntpshm_free returns true exactly when the handle is one of the bank, and
\* then clears the in_use flag of that slot only; otherwise no flag changes.
C4_FreeExactlyBankHandles ==
    [][IsCall("free") =>
        LET s == call'.arg
            inbank == \E i \in Segs : shmTime[i] = s
        IN  /\ (call'.ret = 1) <=> inbank
            /\ inbank => \E i \in Segs :
                    /\ shmTime[i] = s
                    /\ shmTimeInuse'[i] = FALSE
                    /\ \A j \in Segs \ {i} : shmTimeInuse'[j] = shmTimeInuse[j]
            /\ ~inbank => shmTimeInuse' = shmTimeInuse]_vars

\* C4 witness: a leased slot was freed while another slot stays leased
C4_Witness ==
    /\ call.op = "free" /\ call.ret = 1 /\ call.arg \in Handles
    /\ call.pre[SegOf(call.arg)] /\ ~shmTimeInuse[SegOf(call.arg)]
    /\ \E j \in Segs : shmTimeInuse[j]

\* C5 as stated: handles handed out minus handles returned through free equals
\* the number of slots in use, after any sequence of alloc and free calls.
C5_Original == tally.out - tally.back = Cardinality(InUse)

\* C5 amended: the balance holds as long as free was only passed handles that
\* were leased at the time of the call.
C5_BalanceWhenFreesAreOfLeased ==
    tally.stray = 0 => tally.out - tally.back = Cardinality(InUse)

\* C5 witness: handles were handed out and one of them came back
C5_Witness ==
    /\ tally.stray = 0 /\ tally.out = 2 /\ tally.back = 1
    /\ call.op = "free"

====
